---- MODULE Spec2Model ----
(***************************************************************************)
(* A model of the ADI parser of adif_parser (src/src/parser.rs and         *)
(* src/src/types.rs).                                                      *)
(*                                                                         *)
(* The input is a Rust &str, modelled as the sequence of its UTF-8 bytes.  *)
(* ASCII bytes are written as one-character strings.  The only non-ASCII   *)
(* scalar of the model is U+00E9 (e with acute), the two bytes "C3" "A9";  *)
(* its upper case U+00C9 is the two bytes "C3" "89".  The cursor `pos` is  *)
(* a byte offset, 0-based as in the code; byte k of the input (0-based) is *)
(* input[k+1].  Slicing a &str at an offset that is no character boundary  *)
(* panics, and the model keeps that outcome ("Panic").                     *)
(***************************************************************************)
EXTENDS Integers, Sequences, FiniteSets, TLC

(***************************************************************************)
(* Bounds of the model.                                                    *)
(***************************************************************************)
\* Width in bits of usize in the model (64 on the real targets); small so
\* that TLC's integers carry USIZE_MAX.
UsizeBits == 8
\* Longest token sequence of the record-mode input family.
MaxRecTokens == 4
\* Longest token sequence before the end-of-header marker of the header family.
MaxHdrTokens == 2

USIZE_MAX == 2^UsizeBits - 1

(***************************************************************************)
(* Characters and strings.                                                 *)
(***************************************************************************)
LowerLetters ==
    <<"a","b","c","d","e","f","g","h","i","j","k","l","m",
      "n","o","p","q","r","s","t","u","v","w","x","y","z">>
UpperLetters ==
    <<"A","B","C","D","E","F","G","H","I","J","K","L","M",
      "N","O","P","Q","R","S","T","U","V","W","X","Y","Z">>
Digits == <<"0","1","2","3","4","5","6","7","8","9">>

IndexIn(seq, x) == CHOOSE i \in DOMAIN seq : seq[i] = x
IsIn(seq, x) == \E i \in DOMAIN seq : seq[i] = x

\* The upper case of each ASCII lower-case letter.
AsciiUpperTable ==
    [c \in {LowerLetters[i] : i \in DOMAIN LowerLetters} |->
        UpperLetters[IndexIn(LowerLetters, c)]]

\* char::to_ascii_uppercase on a one-byte character; multi-byte scalars are
\* left alone.
to_ascii_uppercase(c) ==
    IF c \in DOMAIN AsciiUpperTable THEN AsciiUpperTable[c] ELSE c

\* A UTF-8 continuation byte: no character starts there.
IsContinuation(b) == b \in {"A9", "89"}

\* char::len_utf8 of the character whose first byte is c.
len_utf8(c) == IF c = "C3" THEN 2 ELSE 1

\* str::is_char_boundary
is_char_boundary(s, p) ==
    \/ p = 0
    \/ p = Len(s)
    \/ p < Len(s) /\ ~IsContinuation(s[p + 1])

\* str::to_uppercase: ASCII letters are upper-cased and U+00E9 ("C3" "A9")
\* becomes U+00C9 ("C3" "89"); every other byte of the model's alphabet is
\* its own upper case.
to_uppercase(s) ==
    [i \in 1..Len(s) |->
        IF s[i] = "A9" /\ i > 1 /\ s[i - 1] = "C3" THEN "89"
        ELSE to_ascii_uppercase(s[i])]

\* str::starts_with
starts_with(s, pat) ==
    Len(s) >= Len(pat) /\ SubSeq(s, 1, Len(pat)) = pat

\* str::contains
contains(s, pat) ==
    \E i \in 0..(Len(s) - Len(pat)) : SubSeq(s, i + 1, i + Len(pat)) = pat

\* &s[p..]
SliceFrom(s, p) == SubSeq(s, p + 1, Len(s))

\* char::is_whitespace, char::is_ascii_digit
is_whitespace(c) == c \in {" ", "\n"}
is_ascii_digit(c) == IsIn(Digits, c)

(***************************************************************************)
(* types.rs: DataType, Field, Record, AdifHeader.                          *)
(***************************************************************************)
\* Option<T>: None is the empty sequence, Some(v) the one-element sequence.
None == <<>>
Some(v) == <<v>>

TypedIndicators == <<"B","N","D","T","S","M","E","L","I","G">>
TypedNames ==
    <<"Boolean","Number","Date","Time","String","MultilineString",
      "Enumeration","Location","IntlString","IntlMultilineString">>

\* DataType::from_char
from_char(c) ==
    LET u == to_ascii_uppercase(c)
    IN  IF IsIn(TypedIndicators, u)
        THEN Some(TypedNames[IndexIn(TypedIndicators, u)])
        ELSE None

\* DataType::to_char
to_char(t) ==
    IF IsIn(TypedNames, t)
    THEN Some(TypedIndicators[IndexIn(TypedNames, t)])
    ELSE None

\* Field::new
Field_new(name, value) ==
    [name |-> to_uppercase(name), data_type |-> "Unspecified", value |-> value]

\* Field::with_type
Field_with_type(name, data_type, value) ==
    [name |-> to_uppercase(name), data_type |-> data_type, value |-> value]

\* AdifHeader::default
AdifHeader_default ==
    [adif_version |-> None, program_id |-> None, program_version |-> None,
     created_timestamp |-> None, fields |-> <<>>, preamble |-> <<>>]

\* Record::new
Record_new == [fields |-> <<>>]

\* Record::add_field
add_field(rec, field) == [rec EXCEPT !.fields = Append(@, field)]

\* Record::get comparing the query as given, not upper-cased.
Record_get_Exact(rec, name) ==
    LET hits == {i \in DOMAIN rec.fields : rec.fields[i].name = name}
    IN  IF hits = {} THEN None
        ELSE Some(rec.fields[CHOOSE i \in hits : \A j \in hits : i <= j])

\* Record::get: the first field whose stored name equals the upper-cased
\* query.
Record_get(rec, name) ==
    LET name_upper == to_uppercase(name)
        hits == {i \in DOMAIN rec.fields : rec.fields[i].name = name_upper}
    IN  IF hits = {} THEN None
        ELSE Some(rec.fields[CHOOSE i \in hits : \A j \in hits : i <= j])

\* Record::get_value
Record_get_value(rec, name) ==
    LET f == Record_get(rec, name)
    IN  IF f = None THEN None ELSE Some(f[1].value)

(***************************************************************************)
(* error.rs: AdifError.  Every error is a record of the same shape; the    *)
(* fields a variant does not carry are 0 or "".                            *)
(***************************************************************************)
NoError == [kind |-> "None", position |-> 0, expected |-> 0, found |-> 0, message |-> ""]

InvalidDataSpecifier(position, message) ==
    [kind |-> "InvalidDataSpecifier", position |-> position,
     expected |-> 0, found |-> 0, message |-> message]

InvalidFieldLength(position, expected, found) ==
    [kind |-> "InvalidFieldLength", position |-> position,
     expected |-> expected, found |-> found, message |-> ""]

UnexpectedEof(position) ==
    [kind |-> "UnexpectedEof", position |-> position,
     expected |-> 0, found |-> 0, message |-> ""]

ParseError(position, message) ==
    [kind |-> "ParseError", position |-> position,
     expected |-> 0, found |-> 0, message |-> message]

\* A panic (slice off a character boundary, slice with start > end,
\* arithmetic overflow in a build with overflow checks): the process aborts;
\* it is no AdifError.
Panicked == [kind |-> "Panic", position |-> 0, expected |-> 0, found |-> 0, message |-> ""]

(***************************************************************************)
(* parser.rs: the scanner.                                                 *)
(***************************************************************************)
\* AdiParser::peek_char: self.input[self.pos..].chars().next().  The slice
\* panics when pos is beyond the input or inside a character; otherwise the
\* result is "NONE" at the end of the input, else the character at pos
\* (named by its first byte).
peek_char(inp, p) ==
    IF p > Len(inp) \/ ~is_char_boundary(inp, p) THEN "PANIC"
    ELSE IF p = Len(inp) THEN "NONE"
    ELSE inp[p + 1]

\* AdiParser::skip_whitespace_and_newlines: the cursor after the loop, or -1
\* when peek_char panics.
RECURSIVE skip_whitespace_and_newlines(_, _)
skip_whitespace_and_newlines(inp, p) ==
    LET c == peek_char(inp, p)
    IN  IF c = "PANIC" THEN -1
        ELSE IF c # "NONE" /\ is_whitespace(c)
             THEN skip_whitespace_and_newlines(inp, p + len_utf8(c))
        ELSE p

\* AdiParser::find_next_tag_start: Some(offset of the first '<' at or after
\* p), or None.
find_next_tag_start(inp, p) ==
    LET hits == {i \in p..(Len(inp) - 1) : inp[i + 1] = "<"}
    IN  IF hits = {} THEN None
        ELSE Some(CHOOSE i \in hits : \A j \in hits : i <= j)

\* check_tag accepting any tag whose name starts with the marker name.
FollowedByAnything(after_name) == TRUE

\* The test of check_tag on the text after the tag name: lines 258-260.
FollowedByCloseOrColon(after_name) ==
    starts_with(after_name, <<">">>) \/ starts_with(after_name, <<":">>)

\* AdiParser::check_tag
check_tag(inp, p, tag_name) ==
    LET remaining == SliceFrom(inp, p)
        upper == to_uppercase(remaining)
        after_bracket == SliceFrom(upper, 1)
    IN  IF Len(remaining) < Len(tag_name) + 2 THEN FALSE
        ELSE IF ~starts_with(upper, <<"<">>) THEN FALSE
        ELSE IF starts_with(after_bracket, tag_name)
             THEN FollowedByCloseOrColon(SliceFrom(after_bracket, Len(tag_name)))
        ELSE FALSE

\* The loop of skip_tag (lines 280-285): the cursor after the first '>' at or
\* after p, or the end of the input; -1 when peek_char panics.
RECURSIVE SkipUntilClose(_, _)
SkipUntilClose(inp, p) ==
    LET c == peek_char(inp, p)
    IN  IF c = "PANIC" THEN -1
        ELSE IF c = "NONE" THEN p
        ELSE IF c = ">" THEN p + len_utf8(c)
        ELSE SkipUntilClose(inp, p + len_utf8(c))

\* AdiParser::skip_tag: [kind, pos, err].
skip_tag(inp, p, tag_name) ==
    LET c == peek_char(inp, p)
        q == SkipUntilClose(inp, p + 1 + Len(tag_name))
    IN  IF c = "PANIC" THEN [kind |-> "Panic", pos |-> p, err |-> Panicked]
        ELSE IF c # "<"
             THEN [kind |-> "Err", pos |-> p,
                   err |-> ParseError(p, "Expected '<' for tag")]
        ELSE IF q = -1 THEN [kind |-> "Panic", pos |-> p, err |-> Panicked]
        ELSE [kind |-> "Ok", pos |-> q, err |-> NoError]

(***************************************************************************)
(* parser.rs: parse_field.  The result is [kind, pos, field, err] with     *)
(* kind "Ok" (field and the cursor after it), "Err" (err) or "Panic".      *)
(***************************************************************************)
NoField == [name |-> <<>>, data_type |-> "Unspecified", value |-> <<>>]

FieldOk(field, p) == [kind |-> "Ok", pos |-> p, field |-> field, err |-> NoError]
FieldErr(e, p) == [kind |-> "Err", pos |-> p, field |-> NoField, err |-> e]
FieldPanic(p) == [kind |-> "Panic", pos |-> p, field |-> NoField, err |-> Panicked]

\* The name loop (lines 143-148): the cursor at the first ':' or '>' or at
\* the end of the input; -1 when peek_char panics.  The step is one byte
\* whatever the character.
RECURSIVE ScanName(_, _)
ScanName(inp, p) ==
    LET c == peek_char(inp, p)
    IN  IF c = "PANIC" THEN -1
        ELSE IF c = "NONE" \/ c = ":" \/ c = ">" THEN p
        ELSE ScanName(inp, p + 1)

\* The length loop (lines 175-180): the cursor after the run of ASCII digits.
RECURSIVE ScanDigits(_, _)
ScanDigits(inp, p) ==
    LET c == peek_char(inp, p)
    IN  IF c = "PANIC" THEN -1
        ELSE IF c # "NONE" /\ is_ascii_digit(c) THEN ScanDigits(inp, p + 1)
        ELSE p

\* str::parse::<usize> on a run of ASCII digits: the number, or -1 when the
\* run is empty or the number exceeds usize::MAX.
RECURSIVE ParseDigits(_, _)
ParseDigits(ds, acc) ==
    IF ds = <<>> THEN acc
    ELSE LET v == acc * 10 + (IndexIn(Digits, Head(ds)) - 1)
         IN  IF v > USIZE_MAX THEN -1 ELSE ParseDigits(Tail(ds), v)

parse_usize(ds) == IF ds = <<>> THEN -1 ELSE ParseDigits(ds, 0)

\* Lines 211-223: the bound check, the slice and the cursor advance.
\* self.pos + length overflows usize when it exceeds USIZE_MAX: a build
\* with overflow checks panics there, a build without wraps around.
ReadValue(inp, p, length, name, data_type, overflow_checks) ==
    LET sum == p + length
        end == sum % (USIZE_MAX + 1)
    IN  IF sum > USIZE_MAX /\ overflow_checks THEN FieldPanic(p)
        ELSE IF end > Len(inp)
             THEN FieldErr(InvalidFieldLength(p, length, Len(inp) - p), p)
        ELSE IF end < p \/ ~is_char_boundary(inp, p) \/ ~is_char_boundary(inp, end)
             THEN FieldPanic(p)
        ELSE FieldOk(Field_with_type(name, data_type, SubSeq(inp, p + 1, end)), end)

\* Lines 202-209, then the value: expect '>' at p.
ExpectClose(inp, p, length, name, data_type, overflow_checks) ==
    LET c == peek_char(inp, p)
    IN  IF c = "PANIC" THEN FieldPanic(p)
        ELSE IF c # ">"
             THEN FieldErr(InvalidDataSpecifier(p, "Expected '>' to close tag"), p)
        ELSE ReadValue(inp, p + 1, length, name, data_type, overflow_checks)

\* Lines 190-200: the optional type indicator at p, one byte wide whatever
\* the character.
TypeIndicator(inp, p, length, name, overflow_checks) ==
    LET c == peek_char(inp, p)
        type_char == peek_char(inp, p + 1)
        t == from_char(type_char)
    IN  IF c = "PANIC" THEN FieldPanic(p)
        ELSE IF c = ":"
             THEN IF type_char = "PANIC" THEN FieldPanic(p + 1)
                  ELSE IF type_char = "NONE" THEN FieldErr(UnexpectedEof(p + 1), p + 1)
                  ELSE ExpectClose(inp, p + 2, length, name,
                                   IF t = None THEN "Unspecified" ELSE t[1],
                                   overflow_checks)
        ELSE ExpectClose(inp, p, length, name, "Unspecified", overflow_checks)

\* Lines 164-188: expect ':' at p, then the length.
LengthClause(inp, p, name, overflow_checks) ==
    LET c == peek_char(inp, p)
        length_start == p + 1
        q == ScanDigits(inp, length_start)
        length == parse_usize(SubSeq(inp, length_start + 1, q))
    IN  IF c # ":"
        THEN FieldErr(InvalidDataSpecifier(p, "Expected ':' after field name"), p)
        ELSE IF q = -1 THEN FieldPanic(p)
        ELSE IF length = -1
             THEN FieldErr(InvalidDataSpecifier(length_start, "Invalid length"), q)
        ELSE TypeIndicator(inp, q, length, name, overflow_checks)

\* The name as parse_field stores it (line 149).
FieldName(inp, name_start, p) == to_uppercase(SubSeq(inp, name_start + 1, p))

\* AdiParser::parse_field
parse_field(inp, p, overflow_checks) ==
    LET start_pos == p
        c0 == peek_char(inp, p)
        name_start == p + 1
        q == ScanName(inp, name_start)
        name == FieldName(inp, name_start, q)
    IN  IF c0 = "PANIC" THEN FieldPanic(p)
        ELSE IF c0 # "<"
             THEN FieldErr(ParseError(p, "Expected '<' at start of field"), p)
        ELSE IF q = -1 THEN FieldPanic(p)
        ELSE IF name = <<>>
             THEN FieldErr(InvalidDataSpecifier(start_pos, "Empty field name"), q)
        ELSE IF peek_char(inp, q) = ">" THEN FieldOk(Field_new(name, <<>>), q + 1)
        ELSE LengthClause(inp, q, name, overflow_checks)

(***************************************************************************)
(* The parser as a state machine.  One parse_adi call runs from pc =       *)
(* "parse" to pc = "done"; a step is the entry of parse, or one iteration  *)
(* of the loop of parse_header or of parse_records.                        *)
(***************************************************************************)
VARIABLES
    input,            \* AdiParser.input
    pos,              \* AdiParser.pos
    pc,               \* "parse", "parse_header", "parse_records" or "done"
    has_header,       \* the local has_header of parse
    header,           \* file.header / the local header of parse_header
    records,          \* the local records of parse_records
    current_record,   \* the local current_record of parse_records
    result,           \* what parse_adi returned: Ok, an AdifError, or a panic
    trace             \* history: what each loop iteration did, in order

vars == <<input, pos, pc, has_header, header, records, current_record, result, trace>>

Pending == [kind |-> "Pending", position |-> 0, expected |-> 0, found |-> 0, message |-> ""]
OkResult == [kind |-> "Ok", position |-> 0, expected |-> 0, found |-> 0, message |-> ""]

\* AdiParser::new and the locals of parse before its first statement.
NewParser(inp) ==
    [input |-> inp, pos |-> 0, pc |-> "parse", has_header |-> FALSE,
     header |-> AdifHeader_default, records |-> <<>>,
     current_record |-> Record_new, result |-> Pending, trace |-> <<>>]

\* One entry of the history: the loop (mode), the branch taken (kind), the
\* cursor after the whitespace skip (at) and after the branch (to), and the
\* field parsed, if any.
Event(mode, kind, at, to, field) ==
    [mode |-> mode, kind |-> kind, at |-> at, to |-> to, field |-> field]

Log(s, kind, at, to, field) ==
    Append(s.trace, Event(s.pc, kind, at, to, field))

\* A parse that ends in an AdifError (the ? operator) or in a panic, in the
\* iteration that stood at q.
Fail(s, e, q) ==
    [s EXCEPT !.pc = "done", !.result = e,
              !.trace = Log(s, IF e.kind = "Panic" THEN "panic" ELSE "error",
                            q, q, NoField)]

\* Line 25: the search that decides whether parse_header runs.
HasHeader(inp) == contains(to_uppercase(inp), <<"<","E","O","H",">">>)

\* parse, lines 21-29, with lines 37-43 of parse_header when it is called.
ParseEntry(s) ==
    LET found == find_next_tag_start(s.input, s.pos)
        preamble_end == IF found = None THEN Len(s.input) ELSE found[1]
    IN  IF HasHeader(s.input)
        THEN [s EXCEPT !.has_header = TRUE,
                       !.header = [AdifHeader_default EXCEPT
                                      !.preamble = SubSeq(s.input, 1, preamble_end)],
                       !.pos = preamble_end,
                       !.pc = "parse_header"]
        ELSE [s EXCEPT !.has_header = FALSE, !.pc = "parse_records"]

\* HeaderPush keeping the first value of ADIF_VER instead of the last.
HeaderPush_FirstWins(h, field) ==
    LET v == Some(field.value)
        h1 == IF field.name = <<"A","D","I","F","_","V","E","R">> /\ h.adif_version = None
                  THEN [h EXCEPT !.adif_version = v]
              ELSE IF field.name = <<"P","R","O","G","R","A","M","I","D">>
                  THEN [h EXCEPT !.program_id = v]
              ELSE IF field.name =
                      <<"P","R","O","G","R","A","M","V","E","R","S","I","O","N">>
                  THEN [h EXCEPT !.program_version = v]
              ELSE IF field.name =
                      <<"C","R","E","A","T","E","D","_","T","I","M","E","S","T","A","M","P">>
                  THEN [h EXCEPT !.created_timestamp = v]
              ELSE h
    IN  [h1 EXCEPT !.fields = Append(@, field)]

\* Lines 68-77: the well-known slots, then the push.
HeaderPush(h, field) ==
    LET v == Some(field.value)
        h1 == IF field.name = <<"A","D","I","F","_","V","E","R">>
                  THEN [h EXCEPT !.adif_version = v]
              ELSE IF field.name = <<"P","R","O","G","R","A","M","I","D">>
                  THEN [h EXCEPT !.program_id = v]
              ELSE IF field.name =
                      <<"P","R","O","G","R","A","M","V","E","R","S","I","O","N">>
                  THEN [h EXCEPT !.program_version = v]
              ELSE IF field.name =
                      <<"C","R","E","A","T","E","D","_","T","I","M","E","S","T","A","M","P">>
                  THEN [h EXCEPT !.created_timestamp = v]
              ELSE h
    IN  [h1 EXCEPT !.fields = Append(@, field)]

\* The branch one iteration of a loop takes, from the cursor q after the
\* whitespace skip: "panic", "end", "noise" or "tag".
LoopBranch(inp, q) ==
    IF q = -1 THEN "panic"
    ELSE IF q >= Len(inp) THEN "end"
    ELSE IF peek_char(inp, q) # "<" THEN "noise"
    ELSE "tag"

EOH == <<"E","O","H">>
EOR == <<"E","O","R">>
EOF == <<"E","O","F">>

\* One iteration of the loop of parse_header (lines 46-78); line 80 and
\* line 28 when the loop breaks.
HeaderIteration(s, overflow_checks) ==
    LET q == skip_whitespace_and_newlines(s.input, s.pos)
        b == LoopBranch(s.input, q)
        sk == skip_tag(s.input, q, EOH)
        f == parse_field(s.input, q, overflow_checks)
    IN  IF b = "panic" THEN Fail(s, Panicked, s.pos)
        ELSE IF b = "end"
             THEN [s EXCEPT !.pos = q, !.pc = "parse_records",
                            !.trace = Log(s, "end", q, q, NoField)]
        ELSE IF b = "noise"
             THEN [s EXCEPT !.pos = q + 1,
                            !.trace = Log(s, "noise", q, q + 1, NoField)]
        ELSE IF check_tag(s.input, q, EOH)
             THEN IF sk.kind = "Ok"
                  THEN [s EXCEPT !.pos = sk.pos, !.pc = "parse_records",
                                 !.trace = Log(s, "EOH", q, sk.pos, NoField)]
                  ELSE Fail(s, sk.err, q)
        ELSE IF f.kind = "Ok"
             THEN [s EXCEPT !.pos = f.pos,
                            !.header = HeaderPush(s.header, f.field),
                            !.trace = Log(s, "field", q, f.pos, f.field)]
        ELSE Fail(s, f.err, q)

\* FinishRecords without the trailing record.
FinishRecords_DropTrailing(recs, cur) == recs

\* Lines 121-126 and 32-34: the trailing record, then Ok(file).
FinishRecords(recs, cur) ==
    IF cur.fields # <<>> THEN Append(recs, cur) ELSE recs

\* CloseRecord without the test for an empty record.
CloseRecord_PushEmpty(recs, cur) ==
    [records |-> Append(recs, cur), current_record |-> Record_new]

\* Lines 103-106: what an end-of-record marker does to (records, current).
CloseRecord(recs, cur) ==
    IF cur.fields # <<>>
    THEN [records |-> Append(recs, cur), current_record |-> Record_new]
    ELSE [records |-> recs, current_record |-> cur]

\* One iteration of the loop of parse_records (lines 87-119); lines 121-126
\* and 32-34 when the loop breaks.
RecordsIteration(s, overflow_checks) ==
    LET q == skip_whitespace_and_newlines(s.input, s.pos)
        b == LoopBranch(s.input, q)
        skr == skip_tag(s.input, q, EOR)
        skf == skip_tag(s.input, q, EOF)
        f == parse_field(s.input, q, overflow_checks)
        closed == CloseRecord(s.records, s.current_record)
    IN  IF b = "panic" THEN Fail(s, Panicked, s.pos)
        ELSE IF b = "end"
             THEN [s EXCEPT !.pos = q, !.pc = "done", !.result = OkResult,
                            !.records = FinishRecords(s.records, s.current_record),
                            !.trace = Log(s, "end", q, q, NoField)]
        ELSE IF b = "noise"
             THEN [s EXCEPT !.pos = q + 1,
                            !.trace = Log(s, "noise", q, q + 1, NoField)]
        ELSE IF check_tag(s.input, q, EOR)
             THEN IF skr.kind = "Ok"
                  THEN [s EXCEPT !.pos = skr.pos,
                                 !.records = closed.records,
                                 !.current_record = closed.current_record,
                                 !.trace = Log(s, "EOR", q, skr.pos, NoField)]
                  ELSE Fail(s, skr.err, q)
        ELSE IF check_tag(s.input, q, EOF)
             THEN IF skf.kind = "Ok"
                  THEN [s EXCEPT !.pos = skf.pos, !.pc = "done", !.result = OkResult,
                                 !.records = FinishRecords(s.records, s.current_record),
                                 !.trace = Log(s, "EOF", q, skf.pos, NoField)]
                  ELSE Fail(s, skf.err, q)
        ELSE IF f.kind = "Ok"
             THEN [s EXCEPT !.pos = f.pos,
                            !.current_record = add_field(s.current_record, f.field),
                            !.trace = Log(s, "field", q, f.pos, f.field)]
        ELSE Fail(s, f.err, q)

\* One step of parse_adi.
Step(s, overflow_checks) ==
    IF s.pc = "parse" THEN ParseEntry(s)
    ELSE IF s.pc = "parse_header" THEN HeaderIteration(s, overflow_checks)
    ELSE IF s.pc = "parse_records" THEN RecordsIteration(s, overflow_checks)
    ELSE s

\* parse_adi: the final state of the parse of inp.
RECURSIVE Run(_, _)
Run(s, overflow_checks) ==
    IF s.pc = "done" THEN s ELSE Run(Step(s, overflow_checks), overflow_checks)

parse_adi(inp, overflow_checks) == Run(NewParser(inp), overflow_checks)

\* The document a finished parse returned.
Document(s) == [header |-> s.header, records |-> s.records]

(***************************************************************************)
(* The inputs of the model: three families of texts.                       *)
(***************************************************************************)
\* <NAME>
MarkerTag(name) == <<"<">> \o name \o <<">">>
\* <NAME:DIGITS>VALUE
Specifier(name, digits, value) ==
    <<"<">> \o name \o <<":">> \o digits \o <<">">> \o value
\* <NAME:DIGITS:T>VALUE
TypedSpecifier(name, digits, t, value) ==
    <<"<">> \o name \o <<":">> \o digits \o <<":">> \o t \o <<">">> \o value

EAcute == <<"C3", "A9">>

RECURSIVE DigitsOf(_)
DigitsOf(n) ==
    IF n < 10 THEN <<Digits[n + 1]>>
    ELSE DigitsOf(n \div 10) \o <<Digits[(n % 10) + 1]>>

\* Every concatenation of at most n texts of T.
RECURSIVE Concats(_, _)
Concats(T, n) ==
    IF n = 0 THEN {<<>>}
    ELSE LET shorter == Concats(T, n - 1)
         IN  shorter \cup {s \o t : s \in shorter, t \in T}

\* Record-mode texts: fields, end-of-record and end-of-file markers in both
\* forms and cases, a tag whose name starts with a marker name (with noise
\* after its value), and an end-of-header marker.
RecTokens ==
    { MarkerTag(<<"E","O","R">>),
      Specifier(<<"e","O","r">>, <<"1">>, <<>>),
      MarkerTag(<<"E","O","F">>),
      Specifier(<<"C","A","L","L">>, <<"1">>, <<"A">>),
      Specifier(<<"c","a","l","l">>, <<"1">>, <<"B">>),
      Specifier(<<"E","O","R","X">>, <<"1">>, <<"a">>) \o <<"x">>,
      MarkerTag(<<"E","O","H">>) }

RecInputs == Concats(RecTokens, MaxRecTokens)

\* Header texts: header fields (the four well-known names, in both cases),
\* a marker of record mode, noise, a field longer than the input, then an
\* end-of-header marker and what follows it.
HdrTokens ==
    { Specifier(<<"A","D","I","F","_","V","E","R">>, <<"1">>, <<"3">>),
      Specifier(<<"a","d","i","f","_","v","e","r">>, <<"1">>, <<"4">>),
      Specifier(<<"P","R","O","G","R","A","M","I","D">>, <<"1">>, <<"P">>),
      Specifier(<<"P","R","O","G","R","A","M","V","E","R","S","I","O","N">>,
                <<"1">>, <<"V">>),
      Specifier(<<"C","R","E","A","T","E","D","_","T","I","M","E","S","T","A","M","P">>,
                <<"1">>, <<"T">>),
      MarkerTag(<<"E","O","R">>),
      EAcute,
      <<" ", "#">>,
      Specifier(<<"A">>, <<"9">>, <<"b">>) }

HdrMarkers ==
    { MarkerTag(<<"E","O","H">>),
      MarkerTag(<<"e","o","H">>),
      Specifier(<<"E","O","H">>, <<"0">>, <<>>),
      Specifier(<<"E","O","H","X">>, <<"0">>, <<>>) \o MarkerTag(<<"E","O","H">>) }

HdrTails ==
    { <<>>,
      Specifier(<<"C","A","L","L">>, <<"1">>, <<"A">>) \o MarkerTag(<<"E","O","R">>)
          \o Specifier(<<"c","a","l","l">>, <<"1">>, <<"B">>)
          \o MarkerTag(<<"e","O","f">>) \o <<"x">> }

HdrInputs ==
    {h \o m \o t : h \in Concats(HdrTokens, MaxHdrTokens), m \in HdrMarkers, t \in HdrTails}

\* Single data specifiers <N:L[:T]>V.
FieldNames == { <<"A">>, <<"c","a","l","l">>, <<"C","a">>, EAcute }
FieldLengths ==
    { <<>>, <<"0">>, <<"1">>, <<"2">>, <<"0","3">>, <<"9">>,
      DigitsOf(USIZE_MAX), DigitsOf(USIZE_MAX + 1) }
FieldValues ==
    { <<>>, <<"a">>, <<"a","b">>, <<"a","b","c">>,
      EAcute, EAcute \o <<"a">>, <<"a">> \o EAcute, EAcute \o EAcute }
TypeChars ==
    { <<TypedIndicators[i]>> : i \in DOMAIN TypedIndicators }
    \cup { <<LowerLetters[IndexIn(UpperLetters, TypedIndicators[i])]>> :
              i \in DOMAIN TypedIndicators }
    \cup { <<"Z">>, <<"z">>, <<"1">>, EAcute, <<>> }

FieldInputs ==
    {Specifier(n, l, v) : n \in FieldNames, l \in FieldLengths, v \in FieldValues}
    \cup {TypedSpecifier(n, <<"1">>, t, v) :
              n \in {<<"A">>}, t \in TypeChars, v \in {<<"a">>, <<"a","b">>, EAcute}}
    \cup {TypedSpecifier(<<"A">>, <<"2">>, t, EAcute \o <<"a">>) : t \in TypeChars}

\* Texts whose only marker text lies in the value of one field: fields
\* before it, the field (plain or typed, the marker alone or between other
\* characters, in either case and form), then a field or noise after it.
ValHeads ==
    { <<>>,
      Specifier(<<"C","A","L","L">>, <<"1">>, <<"A">>),
      <<"x", " ">> \o Specifier(<<"c","a","l","l">>, <<"1">>, <<"B">>) }

ValMarkerFields ==
    { Specifier(<<"A">>, <<"5">>, MarkerTag(<<"E","O","H">>)),
      Specifier(<<"A">>, <<"5">>, MarkerTag(<<"e","o","h">>)),
      Specifier(<<"A">>, <<"7">>, Specifier(<<"E","O","H">>, <<"0">>, <<>>)),
      Specifier(<<"B">>, <<"5">>, MarkerTag(<<"E","O","R">>)),
      Specifier(<<"B">>, <<"7">>, <<"a">> \o MarkerTag(<<"e","O","r">>) \o <<"b">>),
      Specifier(<<"C">>, <<"5">>, MarkerTag(<<"E","O","F">>)),
      TypedSpecifier(<<"C">>, <<"5">>, <<"S">>, MarkerTag(<<"e","o","f">>)),
      Specifier(<<"D">>, <<"7">>, Specifier(<<"E","O","F">>, <<"1">>, <<>>)) }

ValTails ==
    { <<>>,
      Specifier(<<"c","a","l","l">>, <<"1">>, <<"B">>),
      <<" ", "y">> }

ValInputs ==
    {h \o m \o t : h \in ValHeads, m \in ValMarkerFields, t \in ValTails}

Inputs == RecInputs \cup HdrInputs \cup FieldInputs \cup ValInputs

(***************************************************************************)
(* The specification.                                                      *)
(***************************************************************************)
\* The parser state held by the variables.
Cur ==
    [input |-> input, pos |-> pos, pc |-> pc, has_header |-> has_header,
     header |-> header, records |-> records, current_record |-> current_record,
     result |-> result, trace |-> trace]

Set(s) ==
    /\ input' = s.input
    /\ pos' = s.pos
    /\ pc' = s.pc
    /\ has_header' = s.has_header
    /\ header' = s.header
    /\ records' = s.records
    /\ current_record' = s.current_record
    /\ result' = s.result
    /\ trace' = s.trace

\* What the iteration that led to s did: the kind of its history entry.
Outcome(s) == s.trace[Len(s.trace)].kind

Init ==
    /\ input \in Inputs
    /\ pos = 0
    /\ pc = "parse"
    /\ has_header = FALSE
    /\ header = AdifHeader_default
    /\ records = <<>>
    /\ current_record = Record_new
    /\ result = Pending
    /\ trace = <<>>

ParseWithHeader ==
    /\ pc = "parse"
    /\ HasHeader(input)
    /\ Set(ParseEntry(Cur))

ParseWithoutHeader ==
    /\ pc = "parse"
    /\ ~HasHeader(input)
    /\ Set(ParseEntry(Cur))

HeaderEnd ==
    /\ pc = "parse_header"
    /\ \E overflow_checks \in BOOLEAN :
          LET s == HeaderIteration(Cur, overflow_checks)
          IN  Outcome(s) = "end" /\ Set(s)

HeaderNoise ==
    /\ pc = "parse_header"
    /\ \E overflow_checks \in BOOLEAN :
          LET s == HeaderIteration(Cur, overflow_checks)
          IN  Outcome(s) = "noise" /\ Set(s)

HeaderEOH ==
    /\ pc = "parse_header"
    /\ \E overflow_checks \in BOOLEAN :
          LET s == HeaderIteration(Cur, overflow_checks)
          IN  Outcome(s) = "EOH" /\ Set(s)

HeaderField ==
    /\ pc = "parse_header"
    /\ \E overflow_checks \in BOOLEAN :
          LET s == HeaderIteration(Cur, overflow_checks)
          IN  Outcome(s) = "field" /\ Set(s)

HeaderError ==
    /\ pc = "parse_header"
    /\ \E overflow_checks \in BOOLEAN :
          LET s == HeaderIteration(Cur, overflow_checks)
          IN  Outcome(s) = "error" /\ Set(s)

HeaderPanic ==
    /\ pc = "parse_header"
    /\ \E overflow_checks \in BOOLEAN :
          LET s == HeaderIteration(Cur, overflow_checks)
          IN  Outcome(s) = "panic" /\ Set(s)

RecordsEnd ==
    /\ pc = "parse_records"
    /\ \E overflow_checks \in BOOLEAN :
          LET s == RecordsIteration(Cur, overflow_checks)
          IN  Outcome(s) = "end" /\ Set(s)

RecordsNoise ==
    /\ pc = "parse_records"
    /\ \E overflow_checks \in BOOLEAN :
          LET s == RecordsIteration(Cur, overflow_checks)
          IN  Outcome(s) = "noise" /\ Set(s)

RecordsEOR ==
    /\ pc = "parse_records"
    /\ \E overflow_checks \in BOOLEAN :
          LET s == RecordsIteration(Cur, overflow_checks)
          IN  Outcome(s) = "EOR" /\ Set(s)

RecordsEOF ==
    /\ pc = "parse_records"
    /\ \E overflow_checks \in BOOLEAN :
          LET s == RecordsIteration(Cur, overflow_checks)
          IN  Outcome(s) = "EOF" /\ Set(s)

RecordsField ==
    /\ pc = "parse_records"
    /\ \E overflow_checks \in BOOLEAN :
          LET s == RecordsIteration(Cur, overflow_checks)
          IN  Outcome(s) = "field" /\ Set(s)

RecordsError ==
    /\ pc = "parse_records"
    /\ \E overflow_checks \in BOOLEAN :
          LET s == RecordsIteration(Cur, overflow_checks)
          IN  Outcome(s) = "error" /\ Set(s)

RecordsPanic ==
    /\ pc = "parse_records"
    /\ \E overflow_checks \in BOOLEAN :
          LET s == RecordsIteration(Cur, overflow_checks)
          IN  Outcome(s) = "panic" /\ Set(s)

Next ==
    \/ ParseWithHeader
    \/ ParseWithoutHeader
    \/ HeaderEnd
    \/ HeaderNoise
    \/ HeaderEOH
    \/ HeaderField
    \/ HeaderError
    \/ HeaderPanic
    \/ RecordsEnd
    \/ RecordsNoise
    \/ RecordsEOR
    \/ RecordsEOF
    \/ RecordsField
    \/ RecordsError
    \/ RecordsPanic

Spec == Init /\ [][Next]_vars

(***************************************************************************)
(* What the claims speak of, stated on the text itself: scalar characters, *)
(* the shape of a data specifier, marker text.  None of this is the        *)
(* parser's code.                                                          *)
(***************************************************************************)
Loops == {"parse_header", "parse_records"}

\* The cursor at which the next loop iteration looks for a tag.
TagPos == skip_whitespace_and_newlines(input, pos)

IsAsciiText(s) == \A i \in DOMAIN s : s[i] \notin {"C3", "A9", "89"}

\* The number of scalar characters of inp from byte offset p on.
ScalarsFrom(inp, p) ==
    Cardinality({i \in (p + 1)..Len(inp) : ~IsContinuation(inp[i])})

\* The byte offset after n scalar characters from p, or -1 when fewer remain.
RECURSIVE AfterScalars(_, _, _)
AfterScalars(inp, p, n) ==
    IF n = 0 THEN p
    ELSE IF p >= Len(inp) THEN -1
    ELSE AfterScalars(inp, p + len_utf8(inp[p + 1]), n - 1)

\* The least offset i >= p whose byte is in (want) or not in (~want) S, or
\* the length of inp.
FirstOffset(inp, p, S, want) ==
    LET hits == {i \in p..(Len(inp) - 1) : (inp[i + 1] \in S) = want}
    IN  IF hits = {} THEN Len(inp) ELSE CHOOSE i \in hits : \A j \in hits : i <= j

DigitSet == {Digits[i] : i \in DOMAIN Digits}

\* The data specifier <N:L> or <N:L:T> that starts at offset q of inp, read
\* off the grammar: ok says whether there is one; name, length, typed and
\* tchar are its parts and vstart is the offset after its '>'.
Shape(inp, q) ==
    LET ne == FirstOffset(inp, q + 1, {":", ">"}, TRUE)
        de == FirstOffset(inp, ne + 1, DigitSet, FALSE)
        typed == de < Len(inp) /\ inp[de + 1] = ":"
        tw == IF typed /\ de + 1 < Len(inp) THEN len_utf8(inp[de + 2]) ELSE 0
        ce == IF typed THEN de + 1 + tw ELSE de
        length == parse_usize(SubSeq(inp, ne + 2, de))
    IN  [ok |-> /\ q >= 0 /\ q < Len(inp) /\ inp[q + 1] = "<"
                /\ ne > q + 1 /\ ne < Len(inp) /\ inp[ne + 1] = ":"
                /\ length # -1
                /\ (typed => tw > 0)
                /\ ce < Len(inp) /\ inp[ce + 1] = ">",
         name |-> SubSeq(inp, q + 2, ne),
         length |-> length,
         typed |-> typed,
         tchar |-> IF typed /\ tw > 0 THEN inp[de + 2] ELSE "",
         vstart |-> ce + 1]

\* The structural markers of a loop.
MarkersOf(mode) == IF mode = "parse_header" THEN {EOH} ELSE {EOR, EOF}

\* The tag at q is a data field for the loop `mode`: its name is no marker
\* name of that loop.
IsDataTag(inp, q, mode) == to_uppercase(Shape(inp, q).name) \notin MarkersOf(mode)

LastEvent(tr) == tr[Len(tr)]

\* C1. A specifier <N:L>V with no type clause, an ASCII name and a value V
\* of exactly L scalar characters (multi-byte ones included) is parsed into
\* the field (upper-cased N, Unspecified, V), and the cursor is left right
\* after V: L counts scalar characters, not bytes.
C1_LengthCountsScalars ==
    [][ LET q == TagPos
            sh == Shape(input, q)
            vend == AfterScalars(input, sh.vstart, sh.length)
        IN  ( /\ pc \in Loops
              /\ sh.ok /\ ~sh.typed /\ IsAsciiText(sh.name)
              /\ IsDataTag(input, q, pc)
              /\ vend # -1 )
            => /\ LastEvent(trace').kind = "field"
               /\ LastEvent(trace').field =
                     [name |-> to_uppercase(sh.name), data_type |-> "Unspecified",
                      value |-> SubSeq(input, sh.vstart + 1, vend)]
               /\ pos' = vend ]_vars

\* C2. A data specifier (with an ASCII name) whose declared length L exceeds
\* the number of characters that remain after its '>' makes parse_adi fail with
\* InvalidFieldLength, expected = L and found = the number of characters
\* that remain; no field and no document come of it.
C2_TooLongIsInvalidFieldLength ==
    [][ LET q == TagPos
            sh == Shape(input, q)
        IN  ( /\ pc \in Loops
              /\ sh.ok /\ IsAsciiText(sh.name) /\ IsDataTag(input, q, pc)
              /\ sh.length > ScalarsFrom(input, sh.vstart) )
            => /\ pc' = "done"
               /\ result'.kind = "InvalidFieldLength"
               /\ result'.expected = sh.length
               /\ result'.found = ScalarsFrom(input, sh.vstart) ]_vars

\* The history entries of the record loop.
RecordEvents == SelectSeq(trace, LAMBDA e : e.mode = "parse_records")

\* The fields the record loop parsed, in order.
RECURSIVE FieldsOf(_)
FieldsOf(evs) ==
    IF evs = <<>> THEN <<>>
    ELSE IF Head(evs).kind = "field" THEN <<Head(evs).field>> \o FieldsOf(Tail(evs))
    ELSE FieldsOf(Tail(evs))

\* The fields of a sequence of records, one after the other.
RECURSIVE Flatten(_)
Flatten(recs) ==
    IF recs = <<>> THEN <<>> ELSE Head(recs).fields \o Flatten(Tail(recs))

\* The groups of fields between end-of-record markers, the empty groups left
\* out: `group` is the group being gathered.
RECURSIVE GroupsOf(_, _)
GroupsOf(evs, group) ==
    IF evs = <<>>
    THEN IF group = <<>> THEN <<>> ELSE <<[fields |-> group]>>
    ELSE IF Head(evs).kind = "field"
         THEN GroupsOf(Tail(evs), Append(group, Head(evs).field))
    ELSE IF Head(evs).kind = "EOR"
         THEN (IF group = <<>> THEN <<>> ELSE <<[fields |-> group]>>)
              \o GroupsOf(Tail(evs), <<>>)
    ELSE GroupsOf(Tail(evs), group)

Returned == pc = "done" /\ result.kind = "Ok"

\* C3. No record of the record list is empty, at any point of the record
\* loop and in the document returned: an end-of-record marker met with no
\* field gathered emits nothing.
C3_NoEmptyRecord ==
    /\ \A i \in DOMAIN records : records[i].fields # <<>>
    /\ Returned =>
          Len(records) <= Cardinality({i \in DOMAIN RecordEvents :
                                          RecordEvents[i].kind = "field"})

\* A document was returned for an input with a leading end-of-record
\* marker, two consecutive ones and a trailing one.
C3_Witness ==
    /\ Returned
    /\ Len(records) >= 1
    /\ Len(RecordEvents) >= 4
    /\ RecordEvents[1].kind = "EOR"
    /\ \E i \in DOMAIN RecordEvents :
          /\ i + 1 \in DOMAIN RecordEvents
          /\ RecordEvents[i].kind = "EOR" /\ RecordEvents[i + 1].kind = "EOR"
    /\ \E i \in DOMAIN RecordEvents :
          /\ RecordEvents[i].kind = "EOR"
          /\ \A j \in DOMAIN RecordEvents : j > i => RecordEvents[j].kind = "end"

\* C4. The records returned are the groups of fields the record loop parsed,
\* split at the end-of-record markers, in order: no field is dropped or
\* reordered, and a last group with no closing marker is the last record.
C4_RecordsKeepEveryField ==
    Returned =>
        /\ Flatten(records) = FieldsOf(RecordEvents)
        /\ records = GroupsOf(RecordEvents, <<>>)

\* A document of at least two records whose last group of fields had no
\* closing end-of-record marker.
C4_Witness ==
    /\ Returned
    /\ Len(records) >= 2
    /\ Len(RecordEvents) >= 2
    /\ RecordEvents[Len(RecordEvents)].kind = "end"
    /\ RecordEvents[Len(RecordEvents) - 1].kind = "field"

\* C5. Once the record loop meets an end-of-file marker it stops: when the
\* parse of a prefix X<EOF> of the input returns a document by meeting that
\* marker in the record loop, the parse of the whole input X<EOF>T returns
\* the same document, whatever T is.
C5_EofTruncates ==
    pc = "done" =>
        \A n \in 1..Len(input) : \A overflow_checks \in BOOLEAN :
            LET prefix == parse_adi(SubSeq(input, 1, n), overflow_checks)
            IN  ( /\ input[n] = ">"
                  /\ prefix.result.kind = "Ok"
                  /\ LastEvent(prefix.trace).mode = "parse_records"
                  /\ LastEvent(prefix.trace).kind = "EOF"
                  /\ LastEvent(prefix.trace).to = n )
                => /\ result.kind = "Ok"
                   /\ Document(Cur) = Document(prefix)

\* Letter c is letter u (upper case) in either case.
SameLetter(c, u) == c = u \/ c = LowerLetters[IndexIn(UpperLetters, u)]

\* The text at offset q of inp is a structural marker named `name`: '<', the
\* name in any case, then '>' or ':'.
IsMarkerText(inp, q, name) ==
    /\ q >= 0
    /\ q + Len(name) + 2 <= Len(inp)
    /\ inp[q + 1] = "<"
    /\ \A i \in DOMAIN name : SameLetter(inp[q + 1 + i], name[i])
    /\ inp[q + Len(name) + 2] \in {">", ":"}

ContainsMarker(inp, name) == \E q \in 0..(Len(inp) - 1) : IsMarkerText(inp, q, name)

\* The first '<' of the input opens an end-of-header marker.
HeaderMarkerFirst ==
    LET lt == FirstOffset(input, 0, {"<"}, TRUE)
    IN  IsMarkerText(input, lt, EOH)

\* C6. Header mode runs exactly when the input contains an end-of-header
\* marker, in either form (<EOH> or <EOH:...>) and any case; without one the
\* header returned is the default header and every field parsed went to the
\* record loop; with one that no field precedes, the header has no field and
\* header mode raises no error.
C6_HeaderIffMarker ==
    pc # "parse" =>
        /\ has_header <=> ContainsMarker(input, EOH)
        /\ (Returned /\ ~ContainsMarker(input, EOH)) =>
              /\ header = AdifHeader_default
              /\ \A i \in DOMAIN trace : trace[i].mode = "parse_records"
        /\ (has_header /\ HeaderMarkerFirst /\ pc # "parse_header") =>
              /\ header.fields = <<>>
              /\ \A i \in DOMAIN trace :
                    trace[i].mode = "parse_header" => trace[i].kind = "EOH"

\* The history entries of the header loop.
HeaderEvents == SelectSeq(trace, LAMBDA e : e.mode = "parse_header")

\* Some(value of the last field of fs named name), or None.
LastValue(fs, name) ==
    LET hits == {i \in DOMAIN fs : fs[i].name = name}
    IN  IF hits = {} THEN None
        ELSE Some(fs[CHOOSE i \in hits : \A j \in hits : j <= i].value)

ADIF_VER == <<"A","D","I","F","_","V","E","R">>
PROGRAMID == <<"P","R","O","G","R","A","M","I","D">>
PROGRAMVERSION == <<"P","R","O","G","R","A","M","V","E","R","S","I","O","N">>
CREATED_TIMESTAMP ==
    <<"C","R","E","A","T","E","D","_","T","I","M","E","S","T","A","M","P">>

\* C7. header.fields holds every field parsed in header mode, in input
\* order, and each of the four well-known attributes is the value of the
\* last field of header.fields with its name, absent exactly when there is
\* none.
C7_HeaderSlotsMirrorFields ==
    /\ header.fields = FieldsOf(HeaderEvents)
    /\ header.adif_version = LastValue(header.fields, ADIF_VER)
    /\ header.program_id = LastValue(header.fields, PROGRAMID)
    /\ header.program_version = LastValue(header.fields, PROGRAMVERSION)
    /\ header.created_timestamp = LastValue(header.fields, CREATED_TIMESTAMP)

\* A document whose header saw ADIF_VER twice, with two values, and no
\* PROGRAMID.
C7_Witness ==
    /\ Returned
    /\ Len(header.fields) = 2
    /\ header.fields[1].name = ADIF_VER /\ header.fields[2].name = ADIF_VER
    /\ header.fields[1].value # header.fields[2].value
    /\ header.adif_version = Some(header.fields[2].value)
    /\ header.program_id = None

LowerSet == {LowerLetters[i] : i \in DOMAIN LowerLetters}

\* Two names are the same but for the case of their letters.
SameName(a, b) ==
    /\ Len(a) = Len(b)
    /\ \A i \in DOMAIN a :
          \/ a[i] = b[i]
          \/ \E k \in DOMAIN LowerLetters :
                {a[i], b[i]} = {LowerLetters[k], UpperLetters[k]}

\* Some(the first field of rec whose name is `name` in any case), or None.
FirstNamed(rec, name) ==
    LET hits == {i \in DOMAIN rec.fields : SameName(rec.fields[i].name, name)}
    IN  IF hits = {} THEN None
        ELSE Some(rec.fields[CHOOSE i \in hits : \A j \in hits : i <= j])

QueryNames ==
    { <<"c","a","l","l">>, <<"C","A","L","L">>, <<"C","a","l","L">>,
      <<"e","o","r","x">>, <<"E","o","H">>, <<"a">>, <<"A">>, <<"c","A">>,
      <<"z","z">> }

\* Every record the parser holds: those pushed and the one in progress.
AllRecords == records \o <<current_record>>

\* C8. Every field of the header and of the records has its name stored
\* upper-cased, and Record::get / get_value with any case variant of a name
\* give the first field of the record, in insertion order, with that name,
\* or nothing when there is none.
C8_NamesUpperCasedLookupAnyCase ==
    /\ \A i \in DOMAIN header.fields :
          \A k \in DOMAIN header.fields[i].name :
              header.fields[i].name[k] \notin LowerSet
    /\ \A r \in DOMAIN AllRecords :
          /\ \A i \in DOMAIN AllRecords[r].fields :
                \A k \in DOMAIN AllRecords[r].fields[i].name :
                    AllRecords[r].fields[i].name[k] \notin LowerSet
          /\ \A n \in QueryNames :
                LET first == FirstNamed(AllRecords[r], n)
                IN  /\ Record_get(AllRecords[r], n) = first
                    /\ Record_get_value(AllRecords[r], n) =
                          (IF first = None THEN None ELSE Some(first[1].value))

\* A document with a record holding <call:1>B then <CALL:1>A: both fields
\* are named CALL and the lookup of "CalL" gives the first.
C8_Witness ==
    /\ Returned
    /\ \E r \in DOMAIN records :
          /\ Len(records[r].fields) = 2
          /\ records[r].fields[1] = Field_new(<<"C","A","L","L">>, <<"B">>)
          /\ records[r].fields[2] = Field_new(<<"C","A","L","L">>, <<"A">>)
          /\ Record_get_value(records[r], <<"C","a","l","L">>) = Some(<<"B">>)
    /\ \E i \in DOMAIN trace :
          /\ trace[i].kind = "field"
          /\ SubSeq(input, trace[i].at + 2, trace[i].at + 5) = <<"c","a","l","l">>

TypedSet ==
    {TypedIndicators[i] : i \in DOMAIN TypedIndicators}
    \cup {LowerLetters[IndexIn(UpperLetters, TypedIndicators[i])] :
             i \in DOMAIN TypedIndicators}

UpperOf(c) ==
    IF c \in LowerSet THEN UpperLetters[IndexIn(LowerLetters, c)] ELSE c

\* C9. In a specifier <N:L:T>V (ASCII name, ASCII value of L characters) the
\* indicator character c decides the data type: a typed indicator, in either
\* case, gives from_char(c), and to_char of it is c upper-cased; any other
\* character gives Unspecified and no error; Unspecified has no indicator.
C9_TypeIndicator ==
    [][ LET q == TagPos
            sh == Shape(input, q)
            vend == sh.vstart + sh.length
            c == sh.tchar
        IN  ( /\ pc \in Loops
              /\ sh.ok /\ sh.typed /\ IsAsciiText(sh.name)
              /\ IsDataTag(input, q, pc)
              /\ vend <= Len(input)
              /\ IsAsciiText(SubSeq(input, sh.vstart + 1, vend)) )
            => /\ LastEvent(trace').kind = "field"
               /\ to_char("Unspecified") = None
               /\ IF c \in TypedSet
                  THEN /\ from_char(c) # None
                       /\ LastEvent(trace').field.data_type = from_char(c)[1]
                       /\ to_char(from_char(c)[1]) = Some(UpperOf(c))
                  ELSE LastEvent(trace').field.data_type = "Unspecified" ]_vars

MarkerKind(name) ==
    IF name = EOH THEN "EOH" ELSE IF name = EOR THEN "EOR" ELSE "EOF"

\* The offset after the first '>' at or after q, or the end of the input.
AfterClose(inp, q) ==
    LET c == FirstOffset(inp, q, {">"}, TRUE)
    IN  IF c = Len(inp) THEN c ELSE c + 1

\* C10. A loop iteration treats the tag it stands at as a structural marker
\* exactly when the text there is '<', a marker name of that loop in any
\* case, then '>' or ':'; the marker is consumed through its closing '>' and
\* no further; a tag whose name only starts with a marker name is handed to
\* parse_field.
C10_MarkerExactly ==
    \A i \in DOMAIN trace :
        LET e == trace[i]
        IN  /\ \A m \in {EOH, EOR, EOF} :
                  (e.kind = MarkerKind(m)) <=>
                      (m \in MarkersOf(e.mode) /\ IsMarkerText(input, e.at, m))
            /\ e.kind \in {"EOH", "EOR", "EOF"} => e.to = AfterClose(input, e.at)
            /\ ( /\ e.kind = "field"
                 /\ \E m \in MarkersOf(e.mode) :
                       Len(e.field.name) > Len(m) /\ starts_with(e.field.name, m) )
               => e.field.name = to_uppercase(Shape(input, e.at).name)

\* A record loop that took <EORX:1>a as the field EORX = "a" and <eOr:1> as
\* an end-of-record marker, consumed through its '>'.
C10_Witness ==
    /\ pc = "done"
    /\ \E i \in DOMAIN trace :
          /\ trace[i].mode = "parse_records" /\ trace[i].kind = "field"
          /\ trace[i].field = Field_new(<<"E","O","R","X">>, <<"a">>)
    /\ \E i \in DOMAIN trace :
          /\ trace[i].kind = "EOR"
          /\ input[trace[i].at + 2] = "e"
          /\ input[trace[i].at + 5] = ":"
          /\ trace[i].to = trace[i].at + 7


AdifErrorKinds ==
    {"InvalidDataSpecifier", "InvalidFieldLength", "UnexpectedEof", "ParseError"}

\* C11. parse_adi terminates with a document or an AdifError: the cursor
\* never exceeds the input length, every loop iteration that does not end
\* the parse in a failure moves the cursor forward by at least one unit
\* (only the iteration that finds the input exhausted leaves it in place),
\* so the iterations number at most the input length plus the two that find
\* the input exhausted; a parse that is not done changes state with its
\* next iteration, and a parse that is done returned a document or an
\* AdifError.
C11_TerminatesWithDocumentOrError ==
    /\ pos <= Len(input)
    /\ \A i \in DOMAIN trace :
          /\ trace[i].at <= trace[i].to
          /\ trace[i].to <= Len(input)
          /\ i > 1 => trace[i - 1].to <= trace[i].at
          /\ trace[i].kind \in {"noise", "field", "EOH", "EOR", "EOF"}
                => trace[i].at < trace[i].to
    /\ Len(trace) <= Len(input) + 2
    /\ pc # "done" =>
          \A overflow_checks \in BOOLEAN : Step(Cur, overflow_checks) # Cur
    /\ pc = "done" => result.kind \in {"Ok"} \cup AdifErrorKinds

\* C12. At every step of a parse the cursor sits on a character boundary of
\* the input: the cursor itself, and the cursor before and after every loop
\* iteration so far, are offsets at which a scalar character starts or the
\* input ends; and a parse of an input with multi-byte characters that is
\* done returned a document or an AdifError, never an abort.
C12_CursorOnCharBoundary ==
    /\ is_char_boundary(input, pos)
    /\ \A i \in DOMAIN trace :
          /\ is_char_boundary(input, trace[i].at)
          /\ is_char_boundary(input, trace[i].to)
    /\ pc = "done" /\ ~IsAsciiText(input) =>
          result.kind \in {"Ok"} \cup AdifErrorKinds

MarkerNames == {EOH, EOR, EOF}

\* The spans [from, to) of inp that hold marker text.
MarkerSpans(inp) ==
    { [from |-> q, to |-> q + Len(n) + 2] :
          <<q, n>> \in { qn \in (0..(Len(inp) - 1)) \X MarkerNames :
                            IsMarkerText(inp, qn[1], qn[2]) } }

\* Non-marker text of n characters.
Filler(n) == [i \in 1..n |-> "x"]

\* inp with the bytes of [from, to) replaced by non-marker text.
ReplaceSpan(inp, from, to) ==
    SubSeq(inp, 1, from) \o Filler(to - from) \o SubSeq(inp, to + 1, Len(inp))

\* The fields with every value V replaced by X.
MaskFields(fields, V, X) ==
    [i \in DOMAIN fields |->
        IF fields[i].value = V THEN [fields[i] EXCEPT !.value = X] ELSE fields[i]]

\* The document with every field value V of its header and its records
\* replaced by X.
MaskDocument(doc, V, X) ==
    [header  |-> [doc.header EXCEPT !.fields = MaskFields(@, V, X)],
     records |-> [i \in DOMAIN doc.records |->
                     [doc.records[i] EXCEPT !.fields = MaskFields(@, V, X)]]]

\* C13. Field values are opaque: when all the marker text of an input lies
\* inside the declared-length value V of one field (the specifier at q, which
\* the parse of the input with V replaced by non-marker text X of the same
\* length reads as a field with value X), the parse of the input ends as the
\* parse of the replaced input does, and the document it returns is the
\* document of the replaced input with X replaced by V in that field: same
\* header, same records, same fields in the same places.
C13_ValuesOpaque ==
    pc = "done" =>
        \A q \in 0..(Len(input) - 1) : \A overflow_checks \in BOOLEAN :
            LET sh    == Shape(input, q)
                vend  == sh.vstart + sh.length
                V     == SubSeq(input, sh.vstart + 1, vend)
                X     == Filler(sh.length)
                plain == parse_adi(ReplaceSpan(input, sh.vstart, vend), overflow_checks)
            IN  ( /\ sh.ok
                  /\ vend <= Len(input)
                  /\ MarkerSpans(input) # {}
                  /\ \A m \in MarkerSpans(input) : sh.vstart <= m.from /\ m.to <= vend
                  /\ \E i \in DOMAIN plain.trace :
                        /\ plain.trace[i].kind = "field"
                        /\ plain.trace[i].to = vend
                        /\ plain.trace[i].field.value = X )
                => /\ result.kind = plain.result.kind
                   /\ result.kind = "Ok" =>
                         MaskDocument(Document(Cur), V, X) = Document(plain)

====
